---- MODULE Spec2Model ----
(***************************************************************************)
(* esp32-udp-logger command line tool (tools/esp32_udp_logger_cli.py).     *)
(* One behaviour of this module is one invocation of main(): the parsed    *)
(* arguments, the mDNS discovery session with its listener callbacks, the  *)
(* device resolution, the UDP sockets of the chosen command and the way    *)
(* the process ends.  Strings whose characters matter (names, addresses,   *)
(* payloads, input lines) are sequences of one-character strings.          *)
(***************************************************************************)
EXTENDS Integers, Sequences, FiniteSets, TLC

(* ------------------------------ bounds --------------------------------- *)
\* listener callbacks delivered during one discovery session
MaxCallbacks == 2
\* rejected input lines per interactive prompt
MaxInvalid == 1
\* datagrams printed by listen before the run is cut off
MaxLogs == 1

(* --------------------------- program constants ------------------------- *)
DEFAULT_RX_PORT == 9998
DEFAULT_TX_PORT == 9999
\* reply_timeout_s, the default the call sites of send_udp_cmd use (seconds)
REPLY_TIMEOUT_S == 1

\* "._esp32udplog._udp.local." : the separator of fqdn.split(...) in _info_to_device
SERVICE_SUFFIX ==
    << ".", "_", "e", "s", "p", "3", "2", "u", "d", "p", "l", "o", "g",
       ".", "_", "u", "d", "p", ".", "l", "o", "c", "a", "l", "." >>

(* ------------------------------ strings -------------------------------- *)
UPPER ==
    << "A", "B", "C", "D", "E", "F", "G", "H", "I", "J", "K", "L", "M",
       "N", "O", "P", "Q", "R", "S", "T", "U", "V", "W", "X", "Y", "Z" >>
LOWER ==
    << "a", "b", "c", "d", "e", "f", "g", "h", "i", "j", "k", "l", "m",
       "n", "o", "p", "q", "r", "s", "t", "u", "v", "w", "x", "y", "z" >>
DIGITS == << "0", "1", "2", "3", "4", "5", "6", "7", "8", "9" >>
\* what bytes.decode(errors="replace") puts for an undecodable byte
REPLACEMENT == "U+FFFD"
WHITESPACE == { " ", "\t", "\n" }

IndexIn(c, seq) == CHOOSE i \in 1..Len(seq) : seq[i] = c
InSeq(c, seq) == \E i \in 1..Len(seq) : seq[i] = c

\* ord(c), for the ASCII characters the model uses
Ord(c) ==
    CASE c = "\t" -> 9
      [] c = "\n" -> 10
      [] c = " " -> 32
      [] c = "-" -> 45
      [] c = "." -> 46
      [] InSeq(c, DIGITS) -> 47 + IndexIn(c, DIGITS)
      [] c = ":" -> 58
      [] InSeq(c, UPPER) -> 64 + IndexIn(c, UPPER)
      [] c = "_" -> 95
      [] InSeq(c, LOWER) -> 96 + IndexIn(c, LOWER)
ASCII == { "\t", "\n", " ", "-", ".", ":", "_" }
             \cup { DIGITS[i] : i \in 1..Len(DIGITS) }
             \cup { UPPER[i] : i \in 1..Len(UPPER) }
             \cup { LOWER[i] : i \in 1..Len(LOWER) }
\* chr(b)
Chr(b) == CHOOSE c \in ASCII : Ord(c) = b

\* str.encode("utf-8", errors="replace"): one byte per ASCII character
Encode(s) == [i \in 1..Len(s) |-> Ord(s[i])]
\* bytes.decode("utf-8", errors="replace"): a byte that is no ASCII character
\* (here: a lone byte >= 128) becomes the replacement character
Decode(b) ==
    [i \in 1..Len(b) |->
        IF \E c \in ASCII : Ord(c) = b[i] THEN Chr(b[i]) ELSE REPLACEMENT]

\* str.lower(), one character
LowerChar(c) == IF InSeq(c, UPPER) THEN LOWER[IndexIn(c, UPPER)] ELSE c
\* str.lower()
Lower(s) == [i \in 1..Len(s) |-> LowerChar(s[i])]

\* a < b on str: lexicographic by code point, a proper prefix is smaller
StrLess(a, b) ==
    \E k \in 1..(Len(b)) :
        /\ \A j \in 1..(k - 1) : j <= Len(a) /\ a[j] = b[j]
        /\ k - 1 <= Len(a)
        /\ \/ k = Len(a) + 1
           \/ k <= Len(a) /\ Ord(a[k]) < Ord(b[k])

\* str.strip(): leading and trailing whitespace removed
Strip(s) ==
    LET keep == { i \in 1..Len(s) : s[i] \notin WHITESPACE }
    IN  IF keep = {} THEN << >>
        ELSE LET lo == CHOOSE i \in keep : \A j \in keep : i <= j
                 hi == CHOOSE i \in keep : \A j \in keep : j <= i
             IN  SubSeq(s, lo, hi)

\* str.rstrip("."): trailing dots removed
RStripDot(s) ==
    LET keep == { i \in 1..Len(s) : s[i] # "." }
    IN  IF keep = {} THEN << >>
        ELSE SubSeq(s, 1, CHOOSE i \in keep : \A j \in keep : j <= i)

\* str.isdigit(): non-empty and every character a digit
IsDigit(s) == Len(s) > 0 /\ \A i \in 1..Len(s) : InSeq(s[i], DIGITS)

\* int(s) for a string of digits
RECURSIVE ParseInt(_)
ParseInt(s) ==
    IF Len(s) = 0 THEN 0
    ELSE 10 * ParseInt(SubSeq(s, 1, Len(s) - 1)) + (IndexIn(s[Len(s)], DIGITS) - 1)

\* f"{n}" for an int
RECURSIVE NatToStr(_)
NatToStr(n) ==
    IF n < 10 THEN << DIGITS[n + 1] >>
    ELSE NatToStr(n \div 10) \o << DIGITS[(n % 10) + 1] >>
IntToStr(n) == IF n < 0 THEN << "-" >> \o NatToStr(0 - n) ELSE NatToStr(n)

\* s.split(sep)[0]: the text before the first occurrence of sep, else all of s
SplitFirst(s, sep) ==
    LET at == { i \in 1..(Len(s) - Len(sep) + 1) : SubSeq(s, i, i + Len(sep) - 1) = sep }
    IN  IF at = {} THEN s
        ELSE SubSeq(s, 1, (CHOOSE i \in at : \A j \in at : i <= j) - 1)

(* ------------------------- discovery adapter --------------------------- *)
\* Optional[T] is a sequence of length 0 (None) or 1
None == << >>
Some(x) == << x >>

\* instance names advertised on the network
NAME_ab == << "a", "b" >>
NAME_AB == << "A", "B" >>
NAME_C == << "C" >>
Names == { NAME_ab, NAME_AB, NAME_C }
Fqdns == { n \o SERVICE_SUFFIX : n \in Names }

IP_DEV1 == << "1", "0", ".", "0", ".", "0", ".", "7" >>
IP_DEV2 == << "1", "0", ".", "0", ".", "0", ".", "8" >>
IP_V6 == << "f", "e", "8", "0", ":", ":", "1" >>
SERVER_H == << "h", ".", "l", "o", "c", "a", "l", "." >>
DOT_LOCAL == << ".", "l", "o", "c", "a", "l" >>

\* what zc.get_service_info can answer: None, or a ServiceInfo
\* (port 0 stands for an unadvertised port, server << >> for no server)
Infos ==
    { None,
      Some([port |-> 0, addrs |-> << >>, server |-> << >>]),
      Some([port |-> 1234, addrs |-> << IP_V6 >>, server |-> SERVER_H]),
      Some([port |-> 0, addrs |-> << IP_V6, IP_DEV1 >>, server |-> << >>]),
      Some([port |-> 1234, addrs |-> << IP_DEV2 >>, server |-> SERVER_H]) }

\* _info_to_device with the "if not ip: return None" test left out
InfoToDeviceKeepNoIp(info, fqdn) ==
    IF info = None THEN None
    ELSE LET i == info[1]
             instance == SplitFirst(fqdn, SERVICE_SUFFIX)
             v4 == { k \in 1..Len(i.addrs) : ~InSeq(":", i.addrs[k]) }
             ip == IF v4 = {} THEN << >>
                   ELSE i.addrs[CHOOSE k \in v4 : \A j \in v4 : k <= j]
             host == RStripDot(i.server)
         IN  Some([name |-> instance,
                   host |-> IF host # << >> THEN host ELSE instance \o DOT_LOCAL,
                   ip |-> ip,
                   port |-> IF i.port # 0 THEN i.port ELSE DEFAULT_RX_PORT])

\* _info_to_device(info, fqdn): Optional[Device]
InfoToDevice(info, fqdn) ==
    IF info = None THEN None
    ELSE LET i == info[1]
             instance == SplitFirst(fqdn, SERVICE_SUFFIX)
             port == IF i.port # 0 THEN i.port ELSE DEFAULT_RX_PORT
             v4 == { k \in 1..Len(i.addrs) : ~InSeq(":", i.addrs[k]) }
             ip == IF v4 = {} THEN << >>
                   ELSE i.addrs[CHOOSE k \in v4 : \A j \in v4 : k <= j]
             host == RStripDot(i.server)
         IN  IF ip = << >> THEN None
             ELSE Some([name |-> instance,
                        host |-> IF host # << >> THEN host ELSE instance \o DOT_LOCAL,
                        ip |-> ip,
                        port |-> port])

\* self.devices[dev.name] = dev on an insertion-ordered dict
DictSet(devs, dev) ==
    IF \E i \in 1..Len(devs) : devs[i].name = dev.name
    THEN [i \in 1..Len(devs) |-> IF devs[i].name = dev.name THEN dev ELSE devs[i]]
    ELSE Append(devs, dev)

\* _Listener.add_service on the dict, given what get_service_info answered
AddServiceTo(devs, info, fqdn) ==
    LET dev == InfoToDevice(info, fqdn)
    IN  IF dev # None THEN DictSet(devs, dev[1]) ELSE devs

\* key=lambda d: d.name.lower()
SortKey(dev) == Lower(dev.name)

\* list.sort(key=...): stable, ascending by key
RECURSIVE SortDevices(_)
SortDevices(devs) ==
    IF Len(devs) = 0 THEN << >>
    ELSE LET rest == SortDevices(SubSeq(devs, 1, Len(devs) - 1))
             x == devs[Len(devs)]
             \* x goes after every element whose key is not greater than its own
             n == Cardinality({ i \in 1..Len(rest) : ~StrLess(SortKey(x), SortKey(rest[i])) })
         IN  SubSeq(rest, 1, n) \o << x >> \o SubSeq(rest, n + 1, Len(rest))

(* ------------------------- device resolution --------------------------- *)
PICK_WORD == << "p", "i", "c", "k" >>

\* resolve with the case-insensitive loop run before the exact one
ResolveCaseInsensitiveFirst(name, devs) ==
    LET ci == { i \in 1..Len(devs) : Lower(devs[i].name) = Lower(name) }
    IN  IF ci # {} THEN Some(devs[CHOOSE i \in ci : \A j \in ci : i <= j])
        ELSE None

\* main.resolve for a name other than "pick": the device returned, or None
\* where the code raises SystemExit("Device not found ...")
Resolve(name, devs) ==
    LET exact == { i \in 1..Len(devs) : devs[i].name = name }
        ci == { i \in 1..Len(devs) : Lower(devs[i].name) = Lower(name) }
    IN  IF exact # {} THEN Some(devs[CHOOSE i \in exact : \A j \in exact : i <= j])
        ELSE IF ci # {} THEN Some(devs[CHOOSE i \in ci : \A j \in ci : i <= j])
        ELSE None

(* ------------------------------ inputs --------------------------------- *)
NAME_aB == << "a", "B" >>
NAME_z == << "z" >>
\* the <device> argument: an advertised name, a case variant, "pick", a stranger
DeviceArgs == { NAME_AB, NAME_aB, PICK_WORD, NAME_z }

IP_PC == << "1", "0", ".", "0", ".", "0", ".", "2" >>
IP_LOCAL == << "1", "0", ".", "0", ".", "0", ".", "3" >>
\* --pc-ip: omitted (""), an address, a padded address, blanks only
PcIpArgs == { << >>, IP_PC, << " " >> \o IP_PC, << " " >> }
\* --tx-port
TxPortArgs == { DEFAULT_TX_PORT, 80 }
\* --port
PortArgs == { DEFAULT_TX_PORT, 9000 }
\* what getsockname()[0] can answer
LocalIps == { IP_LOCAL }
ARGV0 == << "c", "l", "i" >>

DeviceCmds == { "bind", "unbind", "status", "broadcast-on", "broadcast-off" }

\* the namespaces parse_args can return (argparse defaults for absent options)
RawArgs ==
    [cmd : DeviceCmds \cup { "list", "pick", "listen" },
     device : DeviceArgs \cup { << >> },
     pc_ip : PcIpArgs, tx_port : TxPortArgs, port : PortArgs]
ArgsSet ==
    { x \in RawArgs :
        /\ (x.cmd \in DeviceCmds) <=> (x.device # << >>)
        /\ x.cmd # "bind" => x.pc_ip = << >>
        /\ x.cmd \notin { "bind", "pick" } => x.tx_port = DEFAULT_TX_PORT
        /\ x.cmd # "listen" => x.port = DEFAULT_TX_PORT }

\* lines typed at "Select device [1-n]: " and at "Choose [1-5]: "
SelectLines == { << "1" >>, << " ", "2" >>, << "3" >>, << "0" >>, << "x" >>, << >> }
ActionLines ==
    { << "1" >>, << " ", "2" >>, << "3" >>, << "4" >>, << "5" >>, << "6" >>, << "1", "2" >> }

\* datagrams a device answers with: "OK", an empty datagram, an undecodable byte
ReplyDatagrams == { << 79, 75 >>, << >>, << 255 >> }
\* log datagrams: "l\n", "l", an undecodable byte
LogDatagrams == { << 108, 10 >>, << 108 >>, << 255 >> }

(* ------------------------- fixed command strings ----------------------- *)
CMD_UNBIND == << "u", "n", "b", "i", "n", "d" >>
CMD_STATUS == << "s", "t", "a", "t", "u", "s" >>
CMD_BROADCAST_ON == << "b", "r", "o", "a", "d", "c", "a", "s", "t", " ", "o", "n" >>
CMD_BROADCAST_OFF == << "b", "r", "o", "a", "d", "c", "a", "s", "t", " ", "o", "f", "f" >>
BIND_WORD == << "b", "i", "n", "d" >>

\* the bind payload with a space left after the port
BindPayloadTrailingSpace(pc_ip, tx_port) ==
    BIND_WORD \o << " " >> \o pc_ip \o << " " >> \o IntToStr(tx_port) \o << " " >>

\* f"bind {pc_ip} {args.tx_port}"
BindPayload(pc_ip, tx_port) ==
    BIND_WORD \o << " " >> \o pc_ip \o << " " >> \o IntToStr(tx_port)

(* --------------------------- how the process ends ---------------------- *)
FMT_NO_DEVICES == "No devices found. (mDNS blocked? component not advertising _esp32udplog._udp?)"
FMT_NOT_FOUND == "Device not found: {name}. Run: {sys.argv[0]} list"
FMT_NETWORK == "Network error sending command to {ip}:{port}: {e}"
FMT_LOCAL_IP == "Failed to determine local IP for {target_ip}: {e}"

\* kind: "none" while running, "return" when main returns, else the exception
\* that ends the process; fmt and args: the f-string of its message and the
\* values formatted into it; cause: the system call whose OSError started it
Running == [kind |-> "none", fmt |-> "", args |-> << >>, cause |-> ""]
Returned == [kind |-> "return", fmt |-> "", args |-> << >>, cause |-> ""]
SystemExitOf(fmt, fargs, cause) ==
    [kind |-> "SystemExit", fmt |-> fmt, args |-> fargs, cause |-> cause]
\* an OSError nothing catches: traceback, the interpreter's own message
Unhandled(kind, cause) == [kind |-> kind, fmt |-> "", args |-> << >>, cause |-> cause]

\* the process exit status: SystemExit(str) and an uncaught exception give 1
ExitStatus(e) == IF e.kind = "return" THEN 0 ELSE 1

\* the except clause of send_udp_cmd with the port left out of the message
NetworkErrorNoPort(c, cause) == SystemExitOf(FMT_NETWORK, << c.ip >>, cause)

\* except OSError as e: raise SystemExit(f"Network error sending command to {ip}:{port}: {e}")
NetworkError(c, cause) == SystemExitOf(FMT_NETWORK, << c.ip, IntToStr(c.port) >>, cause)

\* get_local_ip_for_target with no except clause: the OSError escapes
LocalIpErrorEscapes(target_ip, cause) == Unhandled("OSError", cause)

\* except OSError as e: raise SystemExit(f"Failed to determine local IP for {target_ip}: {e}")
LocalIpError(target_ip, cause) == SystemExitOf(FMT_LOCAL_IP, << target_ip >>, cause)

\* the reply wait with no "except socket.timeout": the timeout reaches the
\* outer "except OSError"
RecvTimeoutIsNetworkError(c) == [exit |-> NetworkError(c, "cmd.recvfrom"), ret |-> << >>]

\* except socket.timeout: return ""
RecvTimeout(c) == [exit |-> Running, ret |-> << >>]

\* a socket closed only when its with block is left normally
WithExitLeaksOnError(sk, s, exc) == IF exc THEN sk ELSE [sk EXCEPT ![s] = "closed"]

\* leaving "with socket.socket(...) as s:", normally or by an exception (exc)
WithExit(sk, s, exc) == [sk EXCEPT ![s] = "closed"]

\* Device(...) for the call sites; send_udp_cmd's arguments and defaults
MkCall(dev, cmd) ==
    [ip |-> dev.ip, port |-> dev.port, cmd |-> cmd,
     expect_reply |-> TRUE, reply_timeout_s |-> REPLY_TIMEOUT_S]

\* one print() or sys.stdout.write(): the format and the values put in it
Line(fmt, fargs) == [fmt |-> fmt, args |-> fargs]

(* ------------------------------- state --------------------------------- *)
VARIABLES
    pc,                \* where main() is
    args,              \* the namespace parse_args returned
    ncb,               \* listener callbacks delivered in the running session
    zc,                \* the Zeroconf session: "unopened", "open", "closed"
    listenerDevices,   \* _Listener.devices, in insertion order
    devices,           \* the list discover() returned
    d,                 \* the resolved Device (Optional)
    ninvalid,          \* input lines rejected at the current prompt
    a,                 \* the action chosen in pick's menu
    outbound,          \* what get_local_ip_for_target returned
    call,              \* the arguments of the send_udp_cmd call (Optional)
    fallback,          \* the "or" text of the print at the call site
    socks,             \* each command's socket: "unopened", "open", "closed"
    timeout,           \* the command socket's timeout (Optional, seconds)
    sent,              \* datagrams handed to the network by sendto
    nsendto,           \* sendto calls made
    nrecv,             \* recvfrom calls made on the command socket
    recvd,             \* how the command socket's recvfrom ended
    r,                 \* what send_udp_cmd returned
    stdout,            \* lines written to standard output
    nlogs,             \* recvfrom calls made on the listening socket
    exit               \* how the process ended

discv == << ncb, zc, listenerDevices, devices >>
selv == << d, ninvalid, a >>
netv == << outbound, call, fallback, socks, timeout, sent, nsendto, nrecv, recvd, r >>
outv == << stdout, nlogs, exit >>
vars == << pc, args, discv, selv, netv, outv >>

Init ==
    /\ pc = "main"
    /\ args \in ArgsSet
    /\ ncb = 0
    /\ zc = "unopened"
    /\ listenerDevices = << >>
    /\ devices = << >>
    /\ d = None
    /\ ninvalid = 0
    /\ a = << >>
    /\ outbound = << >>
    /\ call = None
    /\ fallback = ""
    /\ socks = [cmd |-> "unopened", probe |-> "unopened", listen |-> "unopened"]
    /\ timeout = None
    /\ sent = << >>
    /\ nsendto = 0
    /\ nrecv = 0
    /\ recvd = "none"
    /\ r = << >>
    /\ stdout = << >>
    /\ nlogs = 0
    /\ exit = Running

(* ------------------------------ discover() ----------------------------- *)
\* main, lines 148-152: every command but listen starts a discovery session
DiscoverStart ==
    /\ pc = "main"
    /\ args.cmd # "listen"
    /\ pc' = "discover"
    /\ zc' = "open"
    /\ listenerDevices' = << >>
    /\ UNCHANGED << args, ncb, devices, selv, netv, outv >>

\* _Listener.add_service, called by the browser while discover() sleeps
AddService ==
    /\ pc = "discover"
    /\ ncb < MaxCallbacks
    /\ \E fqdn \in Fqdns, info \in Infos :
           listenerDevices' = AddServiceTo(listenerDevices, info, fqdn)
    /\ ncb' = ncb + 1
    /\ UNCHANGED << pc, args, zc, devices, selv, netv, outv >>

\* _Listener.update_service: add_service again
UpdateService ==
    /\ pc = "discover"
    /\ ncb < MaxCallbacks
    /\ \E fqdn \in Fqdns, info \in Infos :
           listenerDevices' = AddServiceTo(listenerDevices, info, fqdn)
    /\ ncb' = ncb + 1
    /\ UNCHANGED << pc, args, zc, devices, selv, netv, outv >>

\* _Listener.remove_service: pass
RemoveService ==
    /\ pc = "discover"
    /\ ncb < MaxCallbacks
    /\ \E fqdn \in Fqdns : TRUE
    /\ ncb' = ncb + 1
    /\ UNCHANGED << pc, args, zc, listenerDevices, devices, selv, netv, outv >>

\* discover(), lines 61-68: the sleeps end, the values are sorted and
\* returned, the finally clause cancels the browser and closes the session
\* (the listener is local to discover and no callback follows: it and the
\* count of callbacks are dropped)
DiscoverReturn ==
    /\ pc = "discover"
    /\ devices' = SortDevices(listenerDevices)
    /\ zc' = "closed"
    /\ ncb' = 0
    /\ listenerDevices' = << >>
    /\ pc' = "dispatch"
    /\ UNCHANGED << args, selv, netv, outv >>

(* --------------------------- list, pick, resolve ----------------------- *)
DeviceLine(dev) ==
    Line("{d.name}\tip={d.ip}\trx_port={d.port}", << dev.name, dev.ip, IntToStr(dev.port) >>)
MenuLine(i, dev) ==
    Line("{i:2d}) {d.name:24s}  ip={d.ip:15s}  rx_port={d.port}",
         << IntToStr(i), dev.name, dev.ip, IntToStr(dev.port) >>)

\* main, lines 154-160
ListDevices ==
    /\ pc = "dispatch"
    /\ args.cmd = "list"
    /\ stdout' = IF devices = << >>
                 THEN Append(stdout, Line("No devices found.", << >>))
                 ELSE stdout \o [i \in 1..Len(devices) |-> DeviceLine(devices[i])]
    /\ pc' = "terminated"
    /\ exit' = Returned
    /\ UNCHANGED << args, discv, selv, netv, nlogs >>

\* pick_device, lines 71-74: no devices is fatal, else the menu is printed
\* and the prompt loop starts
PickDeviceEnter ==
    IF devices = << >>
    THEN /\ pc' = "terminated"
         /\ exit' = SystemExitOf(FMT_NO_DEVICES, << >>, "")
         /\ UNCHANGED stdout
    ELSE /\ pc' = "pick_input"
         /\ stdout' = stdout \o [i \in 1..Len(devices) |-> MenuLine(i, devices[i])]
         /\ UNCHANGED exit

\* main, lines 173-174: the pick command calls pick_device
MainPick ==
    /\ pc = "dispatch"
    /\ args.cmd = "pick"
    /\ PickDeviceEnter
    /\ UNCHANGED << args, discv, selv, netv, nlogs >>

\* main, line 201 and resolve, lines 162-171
MainResolve ==
    /\ pc = "dispatch"
    /\ args.cmd \in DeviceCmds
    /\ IF args.device = PICK_WORD
       THEN PickDeviceEnter /\ UNCHANGED d
       ELSE LET found == Resolve(args.device, devices)
            IN  IF found # None
                THEN /\ d' = found
                     /\ pc' = "command"
                     /\ UNCHANGED << stdout, exit >>
                ELSE /\ pc' = "terminated"
                     /\ exit' = SystemExitOf(FMT_NOT_FOUND, << args.device, ARGV0 >>, "")
                     /\ UNCHANGED << d, stdout >>
    /\ UNCHANGED << args, discv, ninvalid, a, netv, nlogs >>

\* pick_device, lines 75-81: one pass of the prompt loop
PickInput ==
    /\ pc = "pick_input"
    /\ \E line \in SelectLines :
         LET sel == Strip(line)
             ok == IsDigit(sel) /\ 1 <= ParseInt(sel) /\ ParseInt(sel) <= Len(devices)
         IN  IF ok
             THEN /\ d' = Some(devices[ParseInt(sel)])
                  /\ ninvalid' = 0
                  /\ IF args.cmd = "pick"
                     THEN /\ pc' = "action_menu"
                          /\ stdout' = Append(stdout,
                                 Line("Selected {d.name} (ip={d.ip}, rx_port={d.port})",
                                      LET dev == devices[ParseInt(sel)]
                                      IN  << dev.name, dev.ip, IntToStr(dev.port) >>))
                     ELSE /\ pc' = "command"
                          /\ UNCHANGED stdout
             ELSE /\ ninvalid < MaxInvalid
                  /\ ninvalid' = ninvalid + 1
                  /\ stdout' = Append(stdout, Line("Invalid selection.", << >>))
                  /\ UNCHANGED << pc, d >>
    /\ UNCHANGED << args, discv, a, netv, nlogs, exit >>

OK_NO_REPLY == "OK (no reply)"
NO_REPLY == "(no reply)"

\* main, lines 182-198: the action prompt loop and the branch taken
ChooseAction ==
    /\ pc = "action_menu"
    /\ \E line \in ActionLines :
         LET aa == Strip(line)
         IN  IF aa \in { << "1" >>, << "2" >>, << "3" >>, << "4" >>, << "5" >> }
             THEN /\ a' = aa
                  /\ ninvalid' = 0
                  /\ IF aa = << "1" >>
                     THEN /\ pc' = "local_ip_socket"
                          /\ UNCHANGED << call, fallback >>
                     ELSE /\ pc' = "send_socket"
                          /\ call' = Some(MkCall(d[1],
                                 CASE aa = << "2" >> -> CMD_STATUS
                                   [] aa = << "3" >> -> CMD_UNBIND
                                   [] aa = << "4" >> -> CMD_BROADCAST_OFF
                                   [] aa = << "5" >> -> CMD_BROADCAST_ON))
                          /\ fallback' = IF aa = << "2" >> THEN NO_REPLY ELSE OK_NO_REPLY
             ELSE /\ ninvalid < MaxInvalid
                  /\ ninvalid' = ninvalid + 1
                  /\ UNCHANGED << pc, a, call, fallback >>
    /\ UNCHANGED << args, discv, d, outbound, socks, timeout, sent, nsendto, nrecv,
                    recvd, r, outv >>

\* main, lines 203-223: the command's branch up to its first socket
MainCommand ==
    /\ pc = "command"
    /\ IF args.cmd = "bind"
       THEN LET given == Strip(args.pc_ip)
            IN  IF given # << >>
                THEN /\ call' = Some(MkCall(d[1], BindPayload(given, args.tx_port)))
                     /\ fallback' = OK_NO_REPLY
                     /\ pc' = "send_socket"
                ELSE /\ pc' = "local_ip_socket"
                     /\ UNCHANGED << call, fallback >>
       ELSE /\ call' = Some(MkCall(d[1],
                    CASE args.cmd = "unbind" -> CMD_UNBIND
                      [] args.cmd = "status" -> CMD_STATUS
                      [] args.cmd = "broadcast-on" -> CMD_BROADCAST_ON
                      [] args.cmd = "broadcast-off" -> CMD_BROADCAST_OFF))
            /\ fallback' = IF args.cmd = "status" THEN NO_REPLY ELSE OK_NO_REPLY
            /\ pc' = "send_socket"
    /\ UNCHANGED << args, discv, selv, outbound, socks, timeout, sent, nsendto, nrecv,
                    recvd, r, outv >>

(* ----------------------- get_local_ip_for_target ------------------------ *)
\* line 102: socket.socket(...) inside the try
LocalIpSocket ==
    /\ pc = "local_ip_socket"
    /\ \E ok \in BOOLEAN :
         IF ok
         THEN /\ socks' = [socks EXCEPT !.probe = "open"]
              /\ pc' = "local_ip_connect"
              /\ UNCHANGED exit
         ELSE /\ pc' = "terminated"
              /\ exit' = LocalIpError(d[1].ip, "probe.socket")
              /\ UNCHANGED socks
    /\ UNCHANGED << args, discv, selv, outbound, call, fallback, timeout, sent, nsendto,
                    nrecv, recvd, r, stdout, nlogs >>

\* lines 103-106: connect and getsockname, then back in main the bind
\* payload is built (lines 189 and 205)
LocalIpConnect ==
    /\ pc = "local_ip_connect"
    /\ \E ok \in BOOLEAN, lip \in LocalIps :
         IF ok
         THEN /\ socks' = WithExit(socks, "probe", FALSE)
              /\ outbound' = lip
              /\ call' = Some(MkCall(d[1], BindPayload(lip, args.tx_port)))
              /\ fallback' = OK_NO_REPLY
              /\ pc' = "send_socket"
              /\ UNCHANGED exit
         ELSE /\ socks' = WithExit(socks, "probe", TRUE)
              /\ pc' = "terminated"
              /\ exit' = LocalIpError(d[1].ip, "probe.connect")
              /\ UNCHANGED << outbound, call, fallback >>
    /\ UNCHANGED << args, discv, selv, timeout, sent, nsendto, nrecv, recvd, r, stdout,
                    nlogs >>

(* ------------------------------ send_udp_cmd --------------------------- *)
\* lines 84-86: the socket is made and its timeout set; a failure here is
\* outside every try
SendSocket ==
    /\ pc = "send_socket"
    /\ \E ok \in BOOLEAN :
         IF ok
         THEN /\ socks' = [socks EXCEPT !.cmd = "open"]
              /\ timeout' = Some(call[1].reply_timeout_s)
              /\ pc' = "send_bind"
              /\ UNCHANGED exit
         ELSE /\ pc' = "terminated"
              /\ exit' = Unhandled("OSError", "cmd.socket")
              /\ UNCHANGED << socks, timeout >>
    /\ UNCHANGED << args, discv, selv, outbound, call, fallback, sent, nsendto, nrecv,
                    recvd, r, stdout, nlogs >>

\* line 87: s.bind(("", 0)), before the try
SendBind ==
    /\ pc = "send_bind"
    /\ \E ok \in BOOLEAN :
         IF ok
         THEN /\ pc' = "send_sendto"
              /\ UNCHANGED << socks, exit >>
         ELSE /\ socks' = WithExit(socks, "cmd", TRUE)
              /\ pc' = "terminated"
              /\ exit' = Unhandled("OSError", "cmd.bind")
    /\ UNCHANGED << args, discv, selv, outbound, call, fallback, timeout, sent, nsendto,
                    nrecv, recvd, r, stdout, nlogs >>

\* lines 89-91 and 97-98: the datagram is sent
SendTo ==
    /\ pc = "send_sendto"
    /\ nsendto' = nsendto + 1
    /\ \E ok \in BOOLEAN :
         IF ok
         THEN /\ sent' = Append(sent, [ip |-> call[1].ip, port |-> call[1].port,
                                       data |-> Encode(call[1].cmd)])
              /\ IF call[1].expect_reply
                 THEN /\ pc' = "send_recv"
                      /\ UNCHANGED << socks, r >>
                 ELSE /\ socks' = WithExit(socks, "cmd", FALSE)
                      /\ r' = << >>
                      /\ pc' = "print"
              /\ UNCHANGED exit
         ELSE /\ socks' = WithExit(socks, "cmd", TRUE)
              /\ pc' = "terminated"
              /\ exit' = NetworkError(call[1], "cmd.sendto")
              /\ UNCHANGED << sent, r >>
    /\ UNCHANGED << args, discv, selv, outbound, call, fallback, timeout, nrecv, recvd,
                    stdout, nlogs >>

\* lines 92-98: one recvfrom; a reply, the timeout, or another OSError
\* (the timeout can only happen on a socket that has one)
SendRecv ==
    /\ pc = "send_recv"
    /\ nrecv' = nrecv + 1
    /\ \E how \in { "data", "timeout", "oserror" }, data \in ReplyDatagrams :
         /\ how = "timeout" => timeout # None
         /\ how # "data" => data = << >>
         /\ recvd' = how
         /\ LET res == CASE how = "data" -> [exit |-> Running, ret |-> Decode(data)]
                         [] how = "timeout" -> RecvTimeout(call[1])
                         [] how = "oserror" ->
                                [exit |-> NetworkError(call[1], "cmd.recvfrom"), ret |-> << >>]
            IN  /\ socks' = WithExit(socks, "cmd", res.exit.kind # "none")
                /\ IF res.exit.kind = "none"
                   THEN /\ r' = res.ret
                        /\ pc' = "print"
                        /\ UNCHANGED exit
                   ELSE /\ pc' = "terminated"
                        /\ exit' = res.exit
                        /\ UNCHANGED r
    /\ UNCHANGED << args, discv, selv, outbound, call, fallback, timeout, sent, nsendto,
                    stdout, nlogs >>

\* print(r or "..."), then main returns
PrintReply ==
    /\ pc = "print"
    /\ stdout' = Append(stdout, IF r # << >> THEN Line("{r}", << r >>)
                                ELSE Line(fallback, << >>))
    /\ pc' = "terminated"
    /\ exit' = Returned
    /\ UNCHANGED << args, discv, selv, netv, nlogs >>

(* ------------------------------- listen_logs --------------------------- *)
\* main, lines 148-149 and listen_logs, lines 109-110
ListenSocket ==
    /\ pc = "main"
    /\ args.cmd = "listen"
    /\ stdout' = Append(stdout, Line("Listening for UDP logs on 0.0.0.0:{port} (Ctrl+C to stop)",
                                     << IntToStr(args.port) >>))
    /\ \E ok \in BOOLEAN :
         IF ok
         THEN /\ socks' = [socks EXCEPT !.listen = "open"]
              /\ pc' = "listen_bind"
              /\ UNCHANGED exit
         ELSE /\ pc' = "terminated"
              /\ exit' = Unhandled("OSError", "listen.socket")
              /\ UNCHANGED socks
    /\ UNCHANGED << args, discv, selv, outbound, call, fallback, timeout, sent, nsendto,
                    nrecv, recvd, r, nlogs >>

\* line 111: s.bind(("", port)); nothing catches its OSError
ListenBind ==
    /\ pc = "listen_bind"
    /\ \E ok \in BOOLEAN :
         IF ok
         THEN /\ pc' = "listen_recv"
              /\ UNCHANGED << socks, exit >>
         ELSE /\ socks' = WithExit(socks, "listen", TRUE)
              /\ pc' = "terminated"
              /\ exit' = Unhandled("OSError", "listen.bind")
    /\ UNCHANGED << args, discv, selv, outbound, call, fallback, timeout, sent, nsendto,
                    nrecv, recvd, r, stdout, nlogs >>

\* lines 112-118: one pass of the receive loop, or the exception that ends it
ListenRecv ==
    /\ pc = "listen_recv"
    /\ nlogs' = nlogs + 1
    /\ \E how \in { "data", "oserror", "interrupt" }, data \in LogDatagrams :
         /\ how # "data" => data = << 108 >>
         /\ IF how = "data"
            THEN /\ nlogs < MaxLogs
                 /\ LET txt == Decode(data)
                    IN  stdout' = Append(stdout, Line("{txt}",
                            << IF Len(txt) > 0 /\ txt[Len(txt)] = "\n"
                               THEN txt ELSE txt \o << "\n" >> >>))
                 /\ UNCHANGED << pc, socks, exit >>
            ELSE /\ socks' = WithExit(socks, "listen", TRUE)
                 /\ pc' = "terminated"
                 /\ exit' = IF how = "oserror"
                            THEN Unhandled("OSError", "listen.recvfrom")
                            ELSE Unhandled("KeyboardInterrupt", "")
                 /\ UNCHANGED stdout
    /\ UNCHANGED << args, discv, selv, outbound, call, fallback, timeout, sent, nsendto,
                    nrecv, recvd, r >>

Next ==
    \/ DiscoverStart
    \/ AddService
    \/ UpdateService
    \/ RemoveService
    \/ DiscoverReturn
    \/ ListDevices
    \/ MainPick
    \/ MainResolve
    \/ PickInput
    \/ ChooseAction
    \/ MainCommand
    \/ LocalIpSocket
    \/ LocalIpConnect
    \/ SendSocket
    \/ SendBind
    \/ SendTo
    \/ SendRecv
    \/ PrintReply
    \/ ListenSocket
    \/ ListenBind
    \/ ListenRecv

Spec == Init /\ [][Next]_vars

(* ------------------------------ properties ----------------------------- *)
SocketNames == { "cmd", "probe", "listen" }
Last(q) == q[Len(q)]

\* C1: when binding the command socket fails with an OSError, the process
\* ends with a SystemExit whose message carries the attempted port, never
\* with the raw OSError, and no datagram has been sent.
C1_SendBindFailureIsSystemExit ==
    exit.cause = "cmd.bind" =>
        /\ exit.kind = "SystemExit"
        /\ exit.args # << >>
        /\ sent = << >>

\* C2: when binding the listening socket fails with an OSError, the process
\* ends with a SystemExit whose message carries the attempted port, and the
\* receive loop has not been entered.
C2_ListenBindFailureIsSystemExit ==
    exit.cause = "listen.bind" =>
        /\ exit.kind = "SystemExit"
        /\ exit.args = << IntToStr(args.port) >>
        /\ nlogs = 0

\* C3: with zero devices discovered, pick and every command with a device
\* argument end with a non-zero status and the "No devices found" message,
\* and send nothing.
C3_NoDevicesIsReported ==
    (/\ args.cmd \in DeviceCmds \cup { "pick" }
     /\ pc \notin { "main", "discover", "dispatch" }
     /\ devices = << >>) =>
        /\ pc = "terminated"
        /\ exit.kind = "SystemExit"
        /\ ExitStatus(exit) # 0
        /\ exit.fmt = FMT_NO_DEVICES
        /\ sent = << >>

ResolveRan ==
    /\ args.cmd \in DeviceCmds
    /\ args.device # PICK_WORD
    /\ pc \notin { "main", "discover", "dispatch" }

\* C4: resolving a name other than "pick" gives a device of exactly that
\* name whenever the list has one; a device of that name ignoring case only
\* when it has no exact one; and with neither, the process ends with the
\* "Device not found ... list" message before anything is sent.
C4_ResolveExactThenCaseInsensitive ==
    ResolveRan =>
        LET n == args.device
            exact == { i \in 1..Len(devices) : devices[i].name = n }
            ci == { i \in 1..Len(devices) : Lower(devices[i].name) = Lower(n) }
        IN  /\ exact # {} =>
                /\ d # None
                /\ d[1].name = n
                /\ \E i \in exact : devices[i] = d[1]
            /\ (exact = {} /\ ci # {}) =>
                /\ d # None
                /\ Lower(d[1].name) = Lower(n)
                /\ \E i \in ci : devices[i] = d[1]
            /\ ci = {} =>
                /\ d = None
                /\ pc = "terminated"
                /\ exit = SystemExitOf(FMT_NOT_FOUND, << n, ARGV0 >>, "")
                /\ nsendto = 0
                /\ sent = << >>

\* the exact match is returned although a case variant comes first in the list
C4_Witness ==
    /\ ResolveRan
    /\ Len(devices) >= 2
    /\ devices[1].name # args.device
    /\ Lower(devices[1].name) = Lower(args.device)
    /\ d # None
    /\ d[1].name = args.device

\* C5: the sender waits for at most one reply, on a socket whose timeout is
\* the fixed reply timeout; when the wait times out send_udp_cmd returns ""
\* and the command prints its "no reply" notice and returns normally.
C5_TimeoutIsNoReply ==
    /\ nrecv <= 1
    /\ nrecv = 1 => timeout = Some(REPLY_TIMEOUT_S)
    /\ recvd = "timeout" =>
        /\ pc \in { "print", "terminated" }
        /\ r = << >>
        /\ exit.kind \in { "none", "return" }
        /\ pc = "terminated" =>
            /\ exit.kind = "return"
            /\ ExitStatus(exit) = 0
            /\ Last(stdout) \in { Line(NO_REPLY, << >>), Line(OK_NO_REPLY, << >>) }

C5_Witness ==
    /\ recvd = "timeout"
    /\ pc = "terminated"
    /\ Len(sent) = 1

\* C6: a socket is open only inside the operation that opened it: it is
\* closed when get_local_ip_for_target or send_udp_cmd has returned, and no
\* terminated process, however it ended, has a socket open.
C6_SocketsClosedOnEveryExit ==
    /\ pc = "terminated" => \A s \in SocketNames : socks[s] # "open"
    /\ pc \in { "send_socket", "send_bind", "send_sendto", "send_recv", "print" } =>
           socks.probe # "open"
    /\ pc = "print" => socks.cmd # "open"

\* an error path: the command socket had been opened and the process was
\* ended by an exception
C6_Witness ==
    /\ pc = "terminated"
    /\ exit.kind \in { "SystemExit", "OSError" }
    /\ socks.cmd = "closed"

NoTwoSameName(devs) ==
    \A i, j \in 1..Len(devs) : devs[i].name = devs[j].name => i = j
OrderedByLowerName(devs) ==
    \A i, j \in 1..Len(devs) :
        i < j => ~StrLess(Lower(devs[j].name), Lower(devs[i].name))
AllHaveIPv4(devs) ==
    \A i \in 1..Len(devs) : devs[i].ip # << >> /\ ~InSeq(":", devs[i].ip)

\* C7: whatever callbacks arrived, the list discover() returns has no two
\* records of the same name, is ordered by lower-cased name and holds only
\* records with a non-empty IPv4 address; the listener never stores a
\* record without one.
C7_DiscoverResult ==
    /\ NoTwoSameName(listenerDevices)
    /\ AllHaveIPv4(listenerDevices)
    /\ (args.cmd # "listen" /\ pc \notin { "main", "discover" }) =>
        /\ NoTwoSameName(devices)
        /\ OrderedByLowerName(devices)
        /\ AllHaveIPv4(devices)

\* two devices were returned, the upper-case name C after the name ab
C7_Witness ==
    /\ pc = "dispatch"
    /\ Len(devices) = 2
    /\ devices[1].name = NAME_ab
    /\ devices[2].name = NAME_C

IsBindCommand == args.cmd = "bind" \/ (args.cmd = "pick" /\ a = << "1" >>)
BindDatagram(ip) ==
    [ip |-> d[1].ip, port |-> d[1].port,
     data |-> Encode(<< "b", "i", "n", "d", " " >> \o ip \o << " " >> \o IntToStr(args.tx_port))]
BindSendsOnly(ip) ==
    IsBindCommand =>
        /\ Len(sent) <= 1
        /\ \A i \in 1..Len(sent) : sent[i] = BindDatagram(ip)
        /\ exit.kind = "return" => Len(sent) = 1

\* C8 as stated: the bind command sends the resolved device one datagram,
\* "bind <ip> <tx_port>", where <ip> is the --pc-ip value if one was given
\* and the determined outbound address otherwise.
C8_BindPayloadUsesPcIpValue ==
    BindSendsOnly(IF args.pc_ip # << >> THEN args.pc_ip ELSE outbound)

\* C8 amended: <ip> is the --pc-ip value with surrounding whitespace
\* stripped if that leaves anything, and the determined outbound address
\* otherwise.
C8_BindPayloadUsesStrippedPcIp ==
    BindSendsOnly(IF Strip(args.pc_ip) # << >> THEN Strip(args.pc_ip) ELSE outbound)

\* bind completed with a padded --pc-ip
C8_Witness ==
    /\ args.cmd = "bind"
    /\ args.pc_ip = << " " >> \o IP_PC
    /\ exit.kind = "return"
    /\ Len(sent) = 1

\* C9: when sendto fails with an OSError the process ends with the
\* "Network error sending command to <ip>:<port>" SystemExit naming the
\* target; sendto was called once and recvfrom not at all.
C9_SendFailureNamesTarget ==
    /\ nsendto <= 1
    /\ exit.cause = "cmd.sendto" =>
        /\ pc = "terminated"
        /\ exit.kind = "SystemExit"
        /\ exit.fmt = FMT_NETWORK
        /\ exit.args = << d[1].ip, IntToStr(d[1].port) >>
        /\ nsendto = 1
        /\ nrecv = 0
        /\ sent = << >>

C9_Witness ==
    /\ exit.cause = "cmd.sendto"
    /\ nsendto = 1

\* C10: when the outbound address cannot be determined the process ends
\* with the "Failed to determine local IP for <target>" SystemExit naming
\* the device's address, and the command socket was never opened: nothing
\* was sent.
C10_LocalIpFailureNamesTarget ==
    exit.cause \in { "probe.socket", "probe.connect" } =>
        /\ pc = "terminated"
        /\ exit.kind = "SystemExit"
        /\ exit.fmt = FMT_LOCAL_IP
        /\ exit.args = << d[1].ip >>
        /\ socks.cmd = "unopened"
        /\ nsendto = 0
        /\ sent = << >>

C10_Witness ==
    /\ args.cmd = "bind"
    /\ exit.cause = "probe.connect"
    /\ outbound = << >>

====
